---- MODULE Spec2Model ----
(***************************************************************************)
(* Model of scitech_lab.py: geodetic (LLA) samples to ECEF positions, the  *)
(* backward-difference speed series, and the interpolated velocity query   *)
(* with its append-only log stdout.txt.                                    *)
(*                                                                         *)
(* Numbers.  The program computes in IEEE-754 binary64 (numpy float64 and  *)
(* Python float).  A binary64 value is modelled exactly: a record          *)
(* [k, s, m, e] with k the class ("zero", "fin", "inf", "nan"), s the sign *)
(* (1 or -1), and for k = "fin" the value s * m * 2^e, m an odd natural    *)
(* below 2^53 held as a little-endian sequence of 15-bit limbs (TLC's      *)
(* integers are 32 bits wide).  Every arithmetic operator computes the     *)
(* exact result and rounds it to nearest, ties to even, as the hardware    *)
(* does.  The exponent range is not bounded (no overflow to infinity, no   *)
(* subnormals): the magnitudes of the model lie between 1e-40 and 1e30.    *)
(* The sign of zero is not kept (-0.0 == 0.0 in every comparison the       *)
(* program makes).                                                         *)
(***************************************************************************)
EXTENDS Integers, Sequences, FiniteSets, TLC

(***************************************************************************)
(* Naturals of any size: little-endian limbs in radix 2^15, no leading     *)
(* zero limb; <<>> is 0.                                                   *)
(***************************************************************************)
LimbBits == 5 * 3
Base == 2 ^ LimbBits

Min(a, b) == IF a < b THEN a ELSE b
Max(a, b) == IF a < b THEN b ELSE a

Limb(a, i) == IF i <= Len(a) THEN a[i] ELSE 0

\* a without its leading zero limbs
BTrim(a) ==
  IF a = <<>> THEN a
  ELSE IF a[Len(a)] # 0 THEN a
  ELSE SubSeq(a, 1, CHOOSE n \in 0..(Len(a) - 1) :
                      /\ n = 0 \/ a[n] # 0
                      /\ \A i \in (n + 1)..Len(a) : a[i] = 0)

\* a natural below 2^31
BFromInt(n) == BTrim(<<n % Base, (n \div Base) % Base, n \div (Base * Base)>>)

\* a and b of the same length: decided at the highest limb that differs
BCmpAt(a, b, D) ==
  IF D = {} THEN 0
  ELSE IF \E i \in D : a[i] < b[i] /\ \A j \in D : j <= i THEN -1 ELSE 1

BCmp(a, b) ==
  IF Len(a) # Len(b) THEN (IF Len(a) < Len(b) THEN -1 ELSE 1)
  ELSE IF a = b THEN 0
  ELSE IF a[Len(a)] # b[Len(a)] THEN (IF a[Len(a)] < b[Len(a)] THEN -1 ELSE 1)
  ELSE BCmpAt(a, b, {i \in 1..Len(a) : a[i] # b[i]})

RECURSIVE BAddC(_, _, _, _)
BAddC(a, b, i, c) ==
  IF i > Len(a) /\ i > Len(b) THEN (IF c = 0 THEN <<>> ELSE <<c>>)
  ELSE LET s == Limb(a, i) + Limb(b, i) + c
       IN  <<s % Base>> \o BAddC(a, b, i + 1, s \div Base)

BAdd(a, b) == BAddC(a, b, 1, 0)

\* a - b for a >= b
RECURSIVE BSubC(_, _, _, _)
BSubC(a, b, i, br) ==
  IF i > Len(a) THEN <<>>
  ELSE LET d == a[i] - Limb(b, i) - br
       IN  <<d % Base>> \o BSubC(a, b, i + 1, IF d < 0 THEN 1 ELSE 0)

BSub(a, b) == BTrim(BSubC(a, b, 1, 0))

RECURSIVE BMulSmallC(_, _, _, _)
BMulSmallC(a, d, i, c) ==
  IF i > Len(a) THEN (IF c = 0 THEN <<>> ELSE <<c>>)
  ELSE LET s == a[i] * d + c
       IN  <<s % Base>> \o BMulSmallC(a, d, i + 1, s \div Base)

BMulSmall(a, d) == IF d = 0 THEN <<>> ELSE BMulSmallC(a, d, 1, 0)

Zeros(n) == [i \in 1..n |-> 0]

\* a * (b[j] + Base * b[j+1] + ...), Horner's scheme
RECURSIVE BMulFrom(_, _, _)
BMulFrom(a, b, j) ==
  IF j > Len(b) THEN <<>>
  ELSE LET hi == BMulFrom(a, b, j + 1)
       IN  BAdd(BMulSmall(a, b[j]), IF hi = <<>> THEN <<>> ELSE <<0>> \o hi)

BMul(a, b) == IF a = <<>> \/ b = <<>> THEN <<>> ELSE BMulFrom(a, b, 1)

\* floor(a / d) for a small d, 0 < d <= Base, from the top limb down
RECURSIVE BDivSmallC(_, _, _, _)
BDivSmallC(a, d, i, r) ==
  IF i = 0 THEN <<>>
  ELSE LET t == r * Base + a[i]
       IN  BDivSmallC(a, d, i - 1, t % d) \o <<t \div d>>

BDivSmall(a, d) == BTrim(BDivSmallC(a, d, Len(a), 0))

BShl(a, k) ==
  IF a = <<>> THEN <<>>
  ELSE Zeros(k \div LimbBits) \o BMulSmall(a, 2 ^ (k % LimbBits))

BShr(a, k) ==
  IF k \div LimbBits >= Len(a) THEN <<>>
  ELSE BDivSmall(SubSeq(a, k \div LimbBits + 1, Len(a)), 2 ^ (k % LimbBits))

\* the number of bits of a limb
SmallBitLen(n) == CHOOSE k \in 0..LimbBits : 2 ^ k > n /\ (k = 0 \/ 2 ^ (k - 1) <= n)

BBitLen(a) ==
  IF a = <<>> THEN 0 ELSE LimbBits * (Len(a) - 1) + SmallBitLen(a[Len(a)])

\* bit i of a, bit 0 the least significant
BBit(a, i) == (Limb(a, i \div LimbBits + 1) \div 2 ^ (i % LimbBits)) % 2

\* a mod 2^k = 0
BLowZero(a, k) ==
  /\ \A i \in 1..(k \div LimbBits) : Limb(a, i) = 0
  /\ Limb(a, k \div LimbBits + 1) % 2 ^ (k % LimbBits) = 0

\* the number of trailing zero bits of a limb n # 0
SmallTrailing(n) == CHOOSE k \in 0..(LimbBits - 1) : n % 2 ^ (k + 1) = 2 ^ k

\* a # 0 with z zero limbs below its lowest limb that is not zero
BTrailingAt(a, z) == LimbBits * z + SmallTrailing(a[z + 1])

\* number of trailing zero bits of a # 0
BTrailing(a) ==
  BTrailingAt(a, CHOOSE z \in 0..(Len(a) - 1) :
                   a[z + 1] # 0 /\ \A i \in 1..z : a[i] = 0)

\* the quotient digit of t by d: the estimate qh, lowered until d * qh <= t
RECURSIVE QFix(_, _, _)
QFix(t, d, qh) ==
  IF BCmp(BMulSmall(d, qh), t) <= 0 THEN qh ELSE QFix(t, d, qh - 1)

\* the estimate from the two top limbs of t and the top limb of d (Knuth's
\* algorithm D: at most 2 too large when the top limb of d is >= Base/2)
QDigit(t, d) ==
  QFix(t, d, Min(Base - 1, (Limb(t, Len(d) + 1) * Base + Limb(t, Len(d)))
                             \div d[Len(d)]))

\* long division of n by d, limb i of n downwards; q the quotient limbs so
\* far, r the running remainder (r < d at every step), t the remainder
\* extended by limb i, qd the quotient digit of t:
\* <<quotient limbs, remainder>>
RECURSIVE BDivLoop(_, _, _, _, _)
RECURSIVE BDivDigit(_, _, _, _, _, _)
RECURSIVE BDivNext(_, _, _, _, _)
BDivLoop(n, d, i, q, r) ==
  IF i = 0 THEN <<q, r>>
  ELSE BDivDigit(n, d, i, q, BTrim(<<n[i]>> \o r),
                 QDigit(BTrim(<<n[i]>> \o r), d))

BDivDigit(n, d, i, q, t, qd) ==
  BDivNext(n, d, i, <<qd>> \o q, BSub(t, BMulSmall(d, qd)))

BDivNext(n, d, i, q, r) ==
  IF BCmp(r, d) < 0 THEN BDivLoop(n, d, i - 1, q, r) ELSE <<>>

BDivFrom(n, d) == BDivLoop(n, d, Len(n), <<>>, <<>>)

\* the quotient and the remainder of the division shifted left by sh
BDivOut(qr, sh) == <<BTrim(qr[1]), BShr(qr[2], sh)>>

BDivShifted(n, d, sh) == BDivOut(BDivFrom(BShl(n, sh), BShl(d, sh)), sh)

\* <<floor(n / d), n mod d>> for d # 0; both are shifted left so that the
\* top limb of the divisor is at least Base/2
BDivMod(n, d) == BDivShifted(n, d, LimbBits - SmallBitLen(d[Len(d)]))

\* floor(sqrt(n)) by Newton's iteration from x >= sqrt(n); y the next iterate
RECURSIVE BSqrtLoop(_, _)
RECURSIVE BSqrtStep(_, _, _)
BSqrtLoop(n, x) == BSqrtStep(n, x, BShr(BAdd(x, BDivMod(n, x)[1]), 1))

BSqrtStep(n, x, y) == IF BCmp(y, x) >= 0 THEN x ELSE BSqrtLoop(n, y)

BSqrtOut(n, r) == <<r, BSub(n, BMul(r, r))>>

\* <<floor(sqrt(n)), n - floor(sqrt(n))^2>>
BSqrtRem(n) ==
  IF n = <<>> THEN <<<<>>, <<>>>>
  ELSE BSqrtOut(n, BSqrtLoop(n, BShl(<<1>>, (BBitLen(n) + 1) \div 2)))

(***************************************************************************)
(* binary64 values and the correctly rounded operations on them.           *)
(***************************************************************************)
Zero == [k |-> "zero", s |-> 1, m |-> <<>>, e |-> 0]
NaN == [k |-> "nan", s |-> 1, m |-> <<>>, e |-> 0]
Inf(sg) == [k |-> "inf", s |-> sg, m |-> <<>>, e |-> 0]
One == [k |-> "fin", s |-> 1, m |-> <<1>>, e |-> 0]

IsNaN(a) == a.k = "nan"
IsInf(a) == a.k = "inf"
IsFinite(a) == a.k \in {"zero", "fin"}

\* sg * M * 2^E with the tz trailing zero bits of M moved to the exponent
CanonAt(sg, M, E, tz) == [k |-> "fin", s |-> sg, m |-> BShr(M, tz), e |-> E + tz]

\* sg * M * 2^E, M # 0 of at most 53 bits, with M made odd
Canon(sg, M, E) == CanonAt(sg, M, E, BTrailing(M))

\* M without its sh low bits (q), rounded to nearest, ties to even
RoundedAt(M, sh, q) ==
  IF BBit(M, sh - 1) = 1 /\ (~BLowZero(M, sh - 1) \/ BBit(q, 0) = 1)
  THEN BAdd(q, <<1>>) ELSE q

\* M of n bits cut to 53 bits
RoundBits(sg, M, E, n) ==
  Canon(sg, IF n <= 53 THEN M ELSE RoundedAt(M, n - 53, BShr(M, n - 53)),
        E + Max(n - 53, 0))

\* sg * M * 2^E rounded to 53 significant bits, to nearest, ties to even
Round(sg, M, E) == IF M = <<>> THEN Zero ELSE RoundBits(sg, M, E, BBitLen(M))

\* twice the quotient (or root) qr[1], plus one when a remainder qr[2] is left
Sticky(qr) == BAdd(BAdd(qr[1], qr[1]), IF qr[2] = <<>> THEN <<>> ELSE <<1>>)

RatShifted(sg, n, d, E, sh) ==
  Round(sg, Sticky(BDivMod(BShl(n, sh), d)), E - sh - 1)

\* sg * (n / d) * 2^E rounded: a quotient of at least 56 bits, then one more
\* bit that says whether a remainder is left
RatRound(sg, n, d, E) ==
  RatShifted(sg, n, d, E, Max(56 + BBitLen(d) - BBitLen(n), 0))

\* an int converted to float64 (exact below 2^53)
FromInt(n) ==
  Round(IF n < 0 THEN -1 ELSE 1, BFromInt(IF n < 0 THEN -n ELSE n), 0)

FNeg(a) == IF a.k \in {"fin", "inf"} THEN [a EXCEPT !.s = -a.s] ELSE a

FMul(a, b) ==
  IF IsNaN(a) \/ IsNaN(b) THEN NaN
  ELSE IF IsInf(a) \/ IsInf(b)
       THEN (IF a.k = "zero" \/ b.k = "zero" THEN NaN ELSE Inf(a.s * b.s))
  ELSE IF a.k = "zero" \/ b.k = "zero" THEN Zero
  ELSE Round(a.s * b.s, BMul(a.m, b.m), a.e + b.e)

\* sa * Ma + sb * Mb, c the comparison of Ma with Mb
AddSigned(sa, Ma, sb, Mb, E, c) ==
  Round(IF sa = sb \/ c > 0 THEN sa ELSE sb,
        IF sa = sb THEN BAdd(Ma, Mb)
        ELSE IF c > 0 THEN BSub(Ma, Mb)
        ELSE IF c < 0 THEN BSub(Mb, Ma) ELSE <<>>,
        E)

AddAligned(sa, Ma, sb, Mb, E) == AddSigned(sa, Ma, sb, Mb, E, BCmp(Ma, Mb))

\* both mantissas brought to the common exponent E
AddAt(a, b, E) ==
  AddAligned(a.s, BShl(a.m, a.e - E), b.s, BShl(b.m, b.e - E), E)

FAdd(a, b) ==
  IF IsNaN(a) \/ IsNaN(b) THEN NaN
  ELSE IF IsInf(a) THEN (IF IsInf(b) /\ b.s # a.s THEN NaN ELSE a)
  ELSE IF IsInf(b) THEN b
  ELSE IF a.k = "zero" THEN b
  ELSE IF b.k = "zero" THEN a
  ELSE AddAt(a, b, Min(a.e, b.e))

FSub(a, b) == FAdd(a, FNeg(b))

\* a faulty division: a zero divisor gives 0
FDivGuarded(a, b) ==
  IF b.k = "zero" \/ a.k = "zero" THEN Zero
  ELSE RatRound(a.s * b.s, a.m, b.m, a.e - b.e)

\* numpy scalar division: a zero divisor gives inf or nan (with a warning),
\* it does not raise
FDiv(a, b) ==
  IF IsNaN(a) \/ IsNaN(b) THEN NaN
  ELSE IF IsInf(a) THEN (IF IsInf(b) THEN NaN ELSE Inf(a.s * b.s))
  ELSE IF IsInf(b) THEN Zero
  ELSE IF b.k = "zero" THEN (IF a.k = "zero" THEN NaN ELSE Inf(a.s))
  ELSE IF a.k = "zero" THEN Zero
  ELSE RatRound(a.s * b.s, a.m, b.m, a.e - b.e)

\* the root of m * 2^e with m shifted left by sh, e - sh even
SqrtShifted(a, sh) ==
  Round(1, Sticky(BSqrtRem(BShl(a.m, sh))), (a.e - sh) \div 2 - 1)

\* a root of at least 55 bits, then the bit that says whether a remainder
\* is left
SqrtFrom(a, sh0) == SqrtShifted(a, sh0 + ((a.e - sh0) % 2))

FSqrt(a) ==
  IF IsNaN(a) THEN NaN
  ELSE IF a.k = "zero" THEN Zero
  ELSE IF a.s = -1 THEN NaN
  ELSE IF IsInf(a) THEN a
  ELSE SqrtFrom(a, Max(110 - BBitLen(a.m), 0))

IsNegative(d) == d.k \in {"fin", "inf"} /\ d.s = -1

\* a < b; false when either is nan
FLt(a, b) == IsNegative(FSub(a, b))

FAbs(a) == IF a.k \in {"fin", "inf"} THEN [a EXCEPT !.s = 1] ELSE a

\* x**2
Square(a) == FMul(a, a)

(***************************************************************************)
(* Decimal literals of the source and of the libm tables: the float64      *)
(* nearest to sg * c * 10^p, c given by its decimal digits in groups of    *)
(* four, most significant group first.                                     *)
(***************************************************************************)
RECURSIVE BFromChunks(_, _, _)
BFromChunks(c, i, acc) ==
  IF i > Len(c) THEN acc
  ELSE BFromChunks(c, i + 1, BAdd(BMulSmall(acc, 10000), BFromInt(c[i])))

BSquare(h) == BMul(h, h)

RECURSIVE BPow10(_)
BPow10(p) ==
  IF p = 0 THEN <<1>>
  ELSE IF p % 2 = 1 THEN BMulSmall(BPow10(p - 1), 10)
  ELSE BSquare(BPow10(p \div 2))

DecOf(sg, num, p) ==
  IF num = <<>> THEN Zero
  ELSE IF p >= 0 THEN Round(sg, BMul(num, BPow10(p)), 0)
  ELSE RatRound(sg, num, BPow10(-p), 0)

Dec(sg, c, p) == DecOf(sg, BFromChunks(c, 1, <<>>), p)

(***************************************************************************)
(* lla_to_ecef.  numpy.cos and numpy.sin are given by their float64 values *)
(* at the arguments the model uses: deg_2_rads * d for the whole degrees d *)
(* of TrigRows.  The argument deg_2_rads * 90 is the float64 nearest pi/2, *)
(* which is not pi/2, so its cosine is 6.123233995736766e-17 and not 0.    *)
(***************************************************************************)
\* numpy.pi = 3.141592653589793
np_pi == Dec(1, <<3141, 5926, 5358, 9793>>, -15)

deg_2_rads == FDiv(np_pi, FromInt(180))

\* deg    cos(deg_2_rads*deg)        sin(deg_2_rads*deg)
\* -90    6.123233995736766e-17      -1.0
\*   0    1.0                         0.0
\*  45    0.7071067811865476          0.7071067811865475
\*  90    6.123233995736766e-17       1.0
TrigRows ==
  { [deg |-> -90, cos |-> Dec(1, <<6123, 2339, 9573, 6766>>, -32),
                  sin |-> FNeg(One)],
    [deg |-> 0,   cos |-> One, sin |-> Zero],
    [deg |-> 45,  cos |-> Dec(1, <<7071, 0678, 1186, 5476>>, -16),
                  sin |-> Dec(1, <<7071, 0678, 1186, 5475>>, -16)],
    [deg |-> 90,  cos |-> Dec(1, <<6123, 2339, 9573, 6766>>, -32),
                  sin |-> One] }

\* the table keyed by the argument in radians
TrigTable ==
  { [deg |-> r.deg, x |-> FMul(deg_2_rads, FromInt(r.deg)),
     cos |-> r.cos, sin |-> r.sin] : r \in TrigRows }

\* a faulty cosine: the cosine of the exact angle, 0 at 90 degrees
np_cos_exact(x) ==
  IF (CHOOSE r \in TrigTable : r.x = x).deg \in {-90, 90} THEN Zero
  ELSE (CHOOSE r \in TrigTable : r.x = x).cos

np_cos(x) == (CHOOSE r \in TrigTable : r.x = x).cos
np_sin(x) == (CHOOSE r \in TrigTable : r.x = x).sin

A == 6378137
\* B = 6356752.31424518
B == Dec(1, <<635, 6752, 3142, 4518>>, -8)

\* A**2 is a Python int below 2^53: its conversion to float is exact
A2 == Square(FromInt(A))

E1 == FSqrt(FDiv(FSub(A2, Square(B)), A2))
E2 == Square(E1)

\* N = A/np.sqrt(1-E2*(sin_lat**2))
N(sin_lat) ==
  FDiv(FromInt(A), FSqrt(FSub(One, FMul(E2, Square(sin_lat)))))

\* lines 78-80: X, Y and Z of one sample
ecef_xyz(Nv, H, cos_lat, cos_lon, sin_lat, sin_lon) ==
  [X |-> FMul(FMul(FAdd(Nv, H), cos_lat), cos_lon),
   Y |-> FMul(FMul(FAdd(Nv, H), cos_lat), sin_lon),
   Z |-> FMul(FAdd(FMul(Nv, FSub(One, E2)), H), sin_lat)]

\* lines 67-80 for one sample: lat, lon in radians, alt in meters
ecef_rad(lat, lon, alt) ==
  ecef_xyz(N(np_sin(lat)), alt, np_cos(lat), np_cos(lon), np_sin(lat),
           np_sin(lon))

\* one sample: lat_d, lon_d in degrees, alt_km in kilometers, all float64
ecef_point(lat_d, lon_d, alt_km) ==
  ecef_rad(FMul(deg_2_rads, lat_d), FMul(deg_2_rads, lon_d),
           FMul(FromInt(1000), alt_km))

\* the columns of a sequence of points
columns(pts) ==
  [X |-> [i \in 1..Len(pts) |-> pts[i].X],
   Y |-> [i \in 1..Len(pts) |-> pts[i].Y],
   Z |-> [i \in 1..Len(pts) |-> pts[i].Z]]

RECURSIVE ecef_points(_, _, _, _)
ecef_points(lat, lon, alt, i) ==
  IF i = 0 THEN <<>>
  ELSE Append(ecef_points(lat, lon, alt, i - 1),
              ecef_point(lat[i], lon[i], alt[i]))

\* the three series are converted element by element (numpy broadcasting)
lla_to_ecef(lat, lon, alt) == columns(ecef_points(lat, lon, alt, Len(lat)))

(***************************************************************************)
(* cal_ecef_velocity.  The time column holds whole seconds (int64): the    *)
(* difference of two timestamps is an integer, converted to float64 by the *)
(* division.  Sequences are indexed from 1: index 1 is the code's index 0. *)
(***************************************************************************)
\* the loop body: v[i] = (position[i]-position[i-1])/(time[i]-time[i-1])
RECURSIVE calc_velocity_loop(_, _, _, _)
calc_velocity_loop(time, position, v, i) ==
  IF i > Len(position) THEN v
  ELSE calc_velocity_loop(time, position,
         [v EXCEPT ![i] = FDiv(FSub(position[i], position[i - 1]),
                               FromInt(time[i] - time[i - 1]))],
         i + 1)

\* a faulty start: v = np.ones(n)
calc_velocity_ones(time, position) ==
  calc_velocity_loop(time, position, [i \in 1..Len(position) |-> One], 2)

\* v = np.zeros(n), then the loop over range(1, n)
calc_velocity(time, position) ==
  calc_velocity_loop(time, position, [i \in 1..Len(position) |-> Zero], 2)

\* a faulty norm: the sum of the squares without the root
sum_of_squares(vx, vy, vz) ==
  [i \in 1..Len(vx) |->
     FAdd(FAdd(Square(vx[i]), Square(vy[i])), Square(vz[i]))]

\* v = np.sqrt(v_xyz[0]**2+v_xyz[1]**2+v_xyz[2]**2)
rms(vx, vy, vz) ==
  [i \in 1..Len(vx) |->
     FSqrt(FAdd(FAdd(Square(vx[i]), Square(vy[i])), Square(vz[i])))]

cal_ecef_velocity(t, x, y, z) ==
  rms(calc_velocity(t, x), calc_velocity(t, y), calc_velocity(t, z))

(***************************************************************************)
(* scipy.interpolate.interp1d(x, y) with its defaults (kind='linear',      *)
(* assume_sorted=False, bounds_error=True) and the call f(x_new).  The     *)
(* breakpoints are sorted by x with a stable sort, the value comes from    *)
(* numpy.interp, and a query outside [x[0], x[-1]] raises ValueError.      *)
(* interp1d is given at least two samples.                                 *)
(***************************************************************************)
\* a faulty ordering: the rows as they come (assume_sorted=True)
row_order(x) == [k \in 1..Len(x) |-> k]

\* np.argsort(x, kind="mergesort"): the stable ordering of the indices
argsort(x) ==
  [k \in 1..Len(x) |->
     CHOOSE i \in 1..Len(x) :
       Cardinality({j \in 1..Len(x) :
                      x[j] < x[i] \/ (x[j] = x[i] /\ j < i)}) = k - 1]

\* x and y taken in the order ind
take(x, y, ind) ==
  [x |-> [k \in 1..Len(x) |-> x[ind[k]]],
   y |-> [k \in 1..Len(x) |-> y[ind[k]]]]

interp1d(x, y) == take(x, y, argsort(x))

\* the largest index j with xp[j] <= key; 0 when key < xp[1]
search(key, xp) ==
  IF key < xp[1] THEN 0
  ELSE CHOOSE j \in 1..Len(xp) :
         xp[j] <= key /\ \A i \in (j + 1)..Len(xp) : key < xp[i]

\* float64 ==
FEq(a, b) == ~IsNaN(a) /\ ~IsNaN(b) /\ a = b

\* slope*(x - x0) + y0 (res); when that is nan, slope*(x - x1) + y1, and
\* y0 when that is nan too and y0 == y1
interp_value(res, slope, xv, x1, y0, y1) ==
  IF ~IsNaN(res) THEN res
  ELSE IF IsNaN(FAdd(FMul(slope, FromInt(xv - x1)), y1)) /\ FEq(y0, y1) THEN y0
  ELSE FAdd(FMul(slope, FromInt(xv - x1)), y1)

interp_slope(slope, xv, x0, x1, y0, y1) ==
  interp_value(FAdd(FMul(slope, FromInt(xv - x0)), y0), slope, xv, x1, y0, y1)

\* between the breakpoints (x0, y0) and (x1, y1)
interp_linear(xv, x0, x1, y0, y1) ==
  interp_slope(FDiv(FSub(y1, y0), FromInt(x1 - x0)), xv, x0, x1, y0, y1)

\* a faulty interpolation: no case for a query at a breakpoint
interp_no_exact(xv, xp, fp, j) ==
  IF j = 0 THEN fp[1]
  ELSE IF xv > xp[Len(xp)] THEN fp[Len(xp)]
  ELSE IF j = Len(xp) THEN fp[j]
  ELSE interp_linear(xv, xp[j], xp[j + 1], fp[j], fp[j + 1])

\* numpy.interp for one x, j the index found by the binary search
interp_at(xv, xp, fp, j) ==
  IF j = 0 THEN fp[1]
  ELSE IF xv > xp[Len(xp)] THEN fp[Len(xp)]
  ELSE IF j = Len(xp) THEN fp[j]
  ELSE IF xp[j] = xv THEN fp[j]
  ELSE interp_linear(xv, xp[j], xp[j + 1], fp[j], fp[j + 1])

\* numpy.interp(x, xp, fp) for one x (the breakpoints are whole numbers)
np_interp(xv, xp, fp) == interp_at(xv, xp, fp, search(xv, xp))

\* a faulty call: no bounds check (numpy.interp clamps to the end values)
interp1d_clamped(f, x_new) ==
  [raised |-> "none", value |-> np_interp(x_new, f.x, f.y)]

\* f(x_new): [raised, value]
interp1d_call(f, x_new) ==
  IF x_new < f.x[1] \/ x_new > f.x[Len(f.x)]
  THEN [raised |-> "ValueError", value |-> NaN]
  ELSE [raised |-> "none", value |-> np_interp(x_new, f.x, f.y)]

\* str(v): the default decimal string of v.  It is one-to-one on ints and
\* on float64 values, and is kept as the value it spells.
str(v) == [str |-> v]

\* '\nVelocity(time=' + str(time_request) + 'seconds) = ' + str(v) + ' m/s\n'
output_of(time_request, v) ==
  <<"\nVelocity(time=", str(time_request), "seconds) = ", str(v), " m/s\n">>

(***************************************************************************)
(* The file system the program reads.  A csv file is its table: a record   *)
(* of columns (pandas.read_csv keeps every column of the header).  The     *)
(* time column holds whole seconds, the others float64.                    *)
(***************************************************************************)
Floats(q) == [i \in 1..Len(q) |-> FromInt(q[i])]

Table(time, latitude, longitude, altitude) ==
  [time |-> time, latitude |-> Floats(latitude),
   longitude |-> Floats(longitude), altitude |-> Floats(altitude)]

FileSystem ==
  [ track    |-> Table(<<0, 10, 20>>, <<0, 0, 45>>, <<0, 90, 90>>, <<0, 0, 1>>),
    \* the last two samples carry the same timestamp, all of X, Y, Z differ
    stalled  |-> Table(<<0, 10, 10>>, <<0, 0, 45>>, <<0, 90, 90>>, <<0, 0, 1>>),
    \* the last two samples carry the same timestamp and the same Y
    paused   |-> Table(<<0, 10, 10>>, <<0, 0, 45>>, <<0, 0, 0>>, <<0, 0, 1>>),
    \* rows not in time order
    shuffled |-> Table(<<20, 0, 10>>, <<0, 0, 45>>, <<0, 90, 90>>, <<0, 0, 1>>),
    \* a header without the latitude column
    nolat    |-> [time |-> <<0, 10, 20>>, longitude |-> Floats(<<0, 90, 90>>),
                  altitude |-> Floats(<<0, 0, 1>>)],
    \* a header without the time column
    notime   |-> [latitude |-> Floats(<<0, 0, 45>>),
                  longitude |-> Floats(<<0, 90, 90>>),
                  altitude |-> Floats(<<0, 0, 1>>)] ]

\* the paths a caller passes: the files above and one that does not exist
FileNames == DOMAIN FileSystem \cup {"absent"}

\* the files with all four columns
Complete ==
  {f \in DOMAIN FileSystem :
     {"time", "latitude", "longitude", "altitude"} \subseteq DOMAIN FileSystem[f]}

\* the query times a caller passes
Requests == {-5, 0, 5, 10, 25}

\* a faulty loader: a missing path gives a default table
load_data_default(filename) ==
  IF filename \in DOMAIN FileSystem
  THEN [raised |-> "none", df |-> FileSystem[filename]]
  ELSE [raised |-> "none", df |-> FileSystem.track]

\* load_data: pandas.read_csv raises FileNotFoundError for a missing path
load_data(filename) ==
  IF filename \in DOMAIN FileSystem
  THEN [raised |-> "none", df |-> FileSystem[filename]]
  ELSE [raised |-> "FileNotFoundError", df |-> <<>>]

\* test_basic.py lines 13-23 on a loaded table: the time column, the ECEF
\* columns and the speed series
velocity_of(df, xyz) ==
  [time |-> df.time, velocity |-> cal_ecef_velocity(df.time, xyz.X, xyz.Y, xyz.Z)]

ecef_of(df) == velocity_of(df, lla_to_ecef(df.latitude, df.longitude, df.altitude))

\* test_basic.py lines 5-23 on a complete file
series_of(filename) == ecef_of(load_data(filename).df)

\* the (time, velocity) pairs test_basic.py passes to interpolate_src_velocity
SeriesSet == {series_of(f) : f \in Complete}

\* line 143: the output string, or the exception of the call f(time_request)
output_or_raise(r, time_request) ==
  [raised |-> r.raised,
   output |-> IF r.raised = "none" THEN output_of(time_request, r.value)
              ELSE <<>>]

\* lines 142-143: f = interp1d(time, velocity) and the output string
src_output(time, velocity, time_request) ==
  output_or_raise(interp1d_call(interp1d(time, velocity), time_request),
                  time_request)

\* test_basic.py lines 5-29 for one file and one query time: what the
\* script writes, or the exception that ends it
test_basic(filename, time_request) ==
  IF load_data(filename).raised # "none"
  THEN [raised |-> load_data(filename).raised, output |-> <<>>]
  ELSE IF filename \notin Complete
  THEN [raised |-> "AttributeError", output |-> <<>>]
  ELSE src_output(series_of(filename).time, series_of(filename).velocity,
                  time_request)

(***************************************************************************)
(* The program state.                                                      *)
(***************************************************************************)
VARIABLES
  log,      \* the content of stdout.txt: the blocks written so far
  console,  \* standard output: the strings printed so far
  pc,       \* the function that runs and the line it is at, "idle" between calls
  frame,    \* the arguments and locals of the running function
  result,   \* the last finished call: its name, arguments and outcome
  ncalls,   \* queries called so far
  done      \* queries that returned without an exception

vars == <<log, console, pc, frame, result, ncalls, done>>

\* queries made in one run of the model
MaxCalls == 2

NoFrame == [filename |-> "", time_request |-> 0, df |-> <<>>, lat |-> <<>>,
            lon |-> <<>>, alt |-> <<>>, xyz |-> <<>>, V |-> <<>>, f |-> <<>>,
            output |-> <<>>]

NoResult == [call |-> "none", filename |-> "", time |-> <<>>, velocity |-> <<>>,
             time_request |-> 0, raised |-> "none", stage |-> "idle"]

Init ==
  /\ log = <<>>
  /\ console = <<>>
  /\ pc = "idle"
  /\ frame = NoFrame
  /\ result = NoResult
  /\ ncalls = 0
  /\ done = 0

\* interpolate_src_velocity(time, velocity, time_request), lines 142-149
interpolate_src_velocity(time, velocity, time_request) ==
  LET r == src_output(time, velocity, time_request)
  IN  /\ ncalls' = ncalls + 1
      /\ result' = [call |-> "src", filename |-> "", time |-> time,
                    velocity |-> velocity, time_request |-> time_request,
                    raised |-> r.raised, stage |-> "interp"]
      /\ IF r.raised # "none"
         THEN UNCHANGED <<log, console, done>>
         ELSE /\ log' = Append(log, r.output)
              /\ console' = Append(console, r.output)
              /\ done' = done + 1

\* test_basic.py lines 28-29: a query on a series computed from a file
SrcQuery ==
  \E sr \in SeriesSet, t \in Requests :
    /\ pc = "idle"
    /\ ncalls < MaxCalls
    /\ interpolate_src_velocity(sr.time, sr.velocity, t)
    /\ UNCHANGED <<pc, frame>>

\* an exception leaves interpolate_new_velocity: the frame is gone
Raise(kind) ==
  /\ pc' = "idle"
  /\ frame' = NoFrame
  /\ result' = [call |-> "new", filename |-> frame.filename, time |-> <<>>,
                velocity |-> <<>>, time_request |-> frame.time_request,
                raised |-> kind, stage |-> pc]
  /\ UNCHANGED <<log, console, ncalls, done>>

\* the call interpolate_new_velocity(filename, time_request)
NewCall ==
  \E filename \in FileNames, t \in Requests :
    /\ pc = "idle"
    /\ ncalls < MaxCalls
    /\ ncalls' = ncalls + 1
    /\ pc' = "load"
    /\ frame' = [NoFrame EXCEPT !.filename = filename, !.time_request = t]
    /\ result' = NoResult
    /\ UNCHANGED <<log, console, done>>

\* line 171: df = load_data(filename)
NewLoad ==
  /\ pc = "load"
  /\ IF load_data(frame.filename).raised # "none"
     THEN Raise(load_data(frame.filename).raised)
     ELSE /\ frame' = [frame EXCEPT !.df = load_data(frame.filename).df]
          /\ pc' = "columns"
          /\ UNCHANGED <<log, console, result, ncalls, done>>

\* lines 174-176: df.latitude, df.longitude, df.altitude; a column that is
\* not in the table raises AttributeError
NewColumns ==
  /\ pc = "columns"
  /\ IF {"latitude", "longitude", "altitude"} \subseteq DOMAIN frame.df
     THEN /\ frame' = [frame EXCEPT !.lat = frame.df.latitude,
                                    !.lon = frame.df.longitude,
                                    !.alt = frame.df.altitude]
          /\ pc' = "convert"
          /\ UNCHANGED <<log, console, result, ncalls, done>>
     ELSE Raise("AttributeError")

\* a faulty conversion: latitude and longitude exchanged
NewConvertSwapped ==
  /\ pc = "convert"
  /\ frame' = [frame EXCEPT !.xyz = lla_to_ecef(frame.lon, frame.lat, frame.alt)]
  /\ pc' = "velocity"
  /\ UNCHANGED <<log, console, result, ncalls, done>>

\* line 177: X,Y,Z = lla_to_ecef(lat,lon,alt)
NewConvert ==
  /\ pc = "convert"
  /\ frame' = [frame EXCEPT !.xyz = lla_to_ecef(frame.lat, frame.lon, frame.alt)]
  /\ pc' = "velocity"
  /\ UNCHANGED <<log, console, result, ncalls, done>>

\* line 180: V = cal_ecef_velocity(df.time,X,Y,Z)
NewVelocity ==
  /\ pc = "velocity"
  /\ IF "time" \in DOMAIN frame.df
     THEN /\ frame' = [frame EXCEPT !.V =
                         cal_ecef_velocity(frame.df.time, frame.xyz.X,
                                           frame.xyz.Y, frame.xyz.Z)]
          /\ pc' = "interp"
          /\ UNCHANGED <<log, console, result, ncalls, done>>
     ELSE Raise("AttributeError")

\* line 183: f = interp1d(df.time, V)
NewInterp ==
  /\ pc = "interp"
  /\ frame' = [frame EXCEPT !.f = interp1d(frame.df.time, frame.V)]
  /\ pc' = "output"
  /\ UNCHANGED <<log, console, result, ncalls, done>>

\* line 184: the output string, with the call f(time_request)
NewOutput ==
  /\ pc = "output"
  /\ IF interp1d_call(frame.f, frame.time_request).raised # "none"
     THEN Raise(interp1d_call(frame.f, frame.time_request).raised)
     ELSE /\ frame' = [frame EXCEPT !.output =
                         output_of(frame.time_request,
                                   interp1d_call(frame.f, frame.time_request).value)]
          /\ pc' = "write"
          /\ UNCHANGED <<log, console, result, ncalls, done>>

\* a faulty write: open('stdout.txt', 'w') truncates the file
NewWriteTruncating ==
  /\ pc = "write"
  /\ log' = <<frame.output>>
  /\ pc' = "print"
  /\ UNCHANGED <<console, frame, result, ncalls, done>>

\* lines 186-188: open('stdout.txt', 'a'), write, close
NewWrite ==
  /\ pc = "write"
  /\ log' = Append(log, frame.output)
  /\ pc' = "print"
  /\ UNCHANGED <<console, frame, result, ncalls, done>>

\* line 190: return print(output)
NewPrint ==
  /\ pc = "print"
  /\ console' = Append(console, frame.output)
  /\ pc' = "idle"
  /\ frame' = NoFrame
  /\ result' = [call |-> "new", filename |-> frame.filename, time |-> <<>>,
                velocity |-> <<>>, time_request |-> frame.time_request,
                raised |-> "none", stage |-> "print"]
  /\ done' = done + 1
  /\ UNCHANGED <<log, ncalls>>

Next ==
  \/ SrcQuery
  \/ NewCall
  \/ NewLoad
  \/ NewColumns
  \/ NewConvert
  \/ NewVelocity
  \/ NewInterp
  \/ NewOutput
  \/ NewWrite
  \/ NewPrint

Spec == Init /\ [][Next]_vars

(***************************************************************************)
(* The functions on their own.  Each specification below starts with the   *)
(* arguments of one call in frame, drawn from bounded sets, and has one    *)
(* step: the call, which leaves its arguments and its value in result.     *)
(***************************************************************************)
\* the sequences of length n over S
Seqs(S, n) == [1..n -> S]

NoOutput == /\ log = <<>>
            /\ console = <<>>
            /\ result = NoResult
            /\ ncalls = 0
            /\ done = 0

\* cal_ecef_velocity(t, x, y, z): samples per call, and the values of the
\* timestamps and of the three position components (meters)
MaxSamples == 3
TimeValues == {0, 10}
Positions == {<<0, 0, 0>>, <<30, 40, 0>>, <<30, 0, 5>>, <<30, 40, 5>>}

\* the columns of n samples <<time, position>>
VelocityColumns(rows) ==
  [t |-> [i \in 1..Len(rows) |-> rows[i][1]],
   x |-> [i \in 1..Len(rows) |-> FromInt(rows[i][2][1])],
   y |-> [i \in 1..Len(rows) |-> FromInt(rows[i][2][2])],
   z |-> [i \in 1..Len(rows) |-> FromInt(rows[i][2][3])]]

VelocityArgs(n) ==
  {VelocityColumns(rows) : rows \in Seqs(TimeValues \X Positions, n)}

InitVel ==
  /\ NoOutput
  /\ pc = "cal_ecef_velocity"
  /\ \E n \in 1..MaxSamples : frame \in VelocityArgs(n)

VelocityCall ==
  /\ pc = "cal_ecef_velocity"
  /\ result' = [call |-> "cal_ecef_velocity", args |-> frame,
                value |-> cal_ecef_velocity(frame.t, frame.x, frame.y, frame.z)]
  /\ pc' = "idle"
  /\ frame' = NoFrame
  /\ UNCHANGED <<log, console, ncalls, done>>

SpecVel == InitVel /\ [][VelocityCall]_vars

\* lla_to_ecef(lat, lon, alt): rows per call, and the values of the
\* latitude, the longitude (degrees) and the altitude (kilometers)
MaxRows == 2
LatValues == {-90, 0, 45, 90}
LonValues == {0, 90}
AltValues == {0, 1}

EcefArgs(n) ==
  [lat : {Floats(q) : q \in Seqs(LatValues, n)},
   lon : {Floats(q) : q \in Seqs(LonValues, n)},
   alt : {Floats(q) : q \in Seqs(AltValues, n)}]

InitEcef ==
  /\ NoOutput
  /\ pc = "lla_to_ecef"
  /\ \E n \in 1..MaxRows : frame \in EcefArgs(n)

EcefCall ==
  /\ pc = "lla_to_ecef"
  /\ result' = [call |-> "lla_to_ecef", args |-> frame,
                value |-> lla_to_ecef(frame.lat, frame.lon, frame.alt)]
  /\ pc' = "idle"
  /\ frame' = NoFrame
  /\ UNCHANGED <<log, console, ncalls, done>>

SpecEcef == InitEcef /\ [][EcefCall]_vars

\* interpolate_src_velocity(time, velocity, time_request): samples per call,
\* and the values of the timestamps and of the speeds
MaxPoints == 3
Speeds == {Zero, FromInt(5), NaN}

QueryArgs(n) ==
  [time : Seqs(TimeValues \cup {20}, n), velocity : Seqs(Speeds, n),
   time_request : Requests \cup {20}]

InitQuery ==
  /\ NoOutput
  /\ pc = "interpolate_src_velocity"
  /\ \E n \in 2..MaxPoints : frame \in QueryArgs(n)

QueryCall ==
  /\ pc = "interpolate_src_velocity"
  /\ interpolate_src_velocity(frame.time, frame.velocity, frame.time_request)
  /\ pc' = "idle"
  /\ frame' = NoFrame

SpecQuery == InitQuery /\ [][QueryCall]_vars

(***************************************************************************)
(* The properties.                                                         *)
(***************************************************************************)
\* t is strictly below every timestamp or strictly above every timestamp
OutOfRange(time, t) ==
  \/ \A i \in 1..Len(time) : t < time[i]
  \/ \A i \in 1..Len(time) : t > time[i]

StrictlyIncreasing(time) == \A i \in 1..(Len(time) - 1) : time[i] < time[i + 1]

\* b is the block '\nVelocity(time=<t>seconds) = <value> m/s\n'
IsBlock(b, t) ==
  /\ Len(b) = 5
  /\ b[1] = "\nVelocity(time="
  /\ b[2] = str(t)
  /\ b[3] = "seconds) = "
  /\ b[4] = str(b[4].str)
  /\ b[5] = " m/s\n"

\* C1: in both query operations (interpolate_src_velocity and
\* interpolate_new_velocity) a query whose time is strictly less than
\* min(time) or strictly greater than max(time) raises the out-of-bounds
\* error of the interpolant (ValueError) to the caller, and the log file and
\* the console are left exactly as they were before the query.
C1_OutOfRangeRaises ==
  [][ /\ (/\ pc = "idle"
          /\ pc' = "idle"
          /\ ncalls' # ncalls
          /\ OutOfRange(result'.time, result'.time_request))
         => (/\ result'.call = "src"
             /\ result'.raised = "ValueError"
             /\ log' = log
             /\ console' = console)
      /\ (pc = "output" /\ OutOfRange(frame.df.time, frame.time_request))
         => (/\ pc' = "idle"
             /\ result'.call = "new"
             /\ result'.raised = "ValueError"
             /\ log' = log
             /\ console' = console) ]_vars

\* an out-of-range query of the file variant made after a completed query
C1_Witness ==
  /\ result.call = "new"
  /\ result.raised = "ValueError"
  /\ result.stage = "output"
  /\ Len(log) = 1
  /\ done = 1

\* C2: the log is append-only.  Every step leaves the log as it is or
\* appends exactly one block '\nVelocity(time=<time_request>seconds) =
\* <value> m/s\n' of the running query to its end, the earlier content
\* staying an unchanged prefix; and the number of blocks in the log equals
\* the number of completed queries (plus the block of the query that has
\* written and not yet printed).
C2_AppendOnly ==
  /\ [](Len(log) = done + (IF pc = "print" THEN 1 ELSE 0))
  /\ [][ \/ log' = log
         \/ /\ Len(log') = Len(log) + 1
            /\ SubSeq(log', 1, Len(log)) = log
            /\ IsBlock(log'[Len(log')],
                       IF pc = "write" THEN frame.time_request
                       ELSE result'.time_request)
            /\ pc = "write" \/ done' = done + 1 ]_vars

\* two completed queries, two different blocks
C2_Witness ==
  /\ pc = "idle"
  /\ done = 2
  /\ Len(log) = 2
  /\ log[1] # log[2]
  /\ result.call = "new"

\* the call of cal_ecef_velocity has returned
VelocityDone == result.call = "cal_ecef_velocity"

\* Vc[i] = (c[i] - c[i-1]) / (time[i] - time[i-1])
Component(t, c, i) == FDiv(FSub(c[i], c[i - 1]), FromInt(t[i] - t[i - 1]))

\* sqrt(Vx[i]^2 + Vy[i]^2 + Vz[i]^2)
Speed(a, i) ==
  FSqrt(FAdd(FAdd(Square(Component(a.t, a.x, i)),
                  Square(Component(a.t, a.y, i))),
             Square(Component(a.t, a.z, i))))

\* C3: for every input of length N >= 1 (any times, any positions, equal
\* consecutive timestamps included) element 0 of the speed series returned
\* by cal_ecef_velocity is exactly 0.
C3_FirstSpeedZero == VelocityDone => result.value[1] = Zero

\* three samples, the first two with the same timestamp and another position
C3_Witness ==
  /\ VelocityDone
  /\ Len(result.args.t) = 3
  /\ result.args.t[1] = result.args.t[2]
  /\ result.args.x[1] # result.args.x[2]
  /\ result.value[1] = Zero
  /\ result.value[2] # Zero

\* C4: for a time sequence with distinct consecutive timestamps and three
\* position sequences of the same length N, cal_ecef_velocity returns N
\* elements, and for every i >= 1 speed[i] = sqrt(Vx[i]^2+Vy[i]^2+Vz[i]^2)
\* with Vc[i] = (c[i]-c[i-1])/(time[i]-time[i-1]); two samples 10 seconds
\* apart whose positions differ by (30, 40, 0) give the speed 5.
C4_SpeedFormula ==
  (/\ VelocityDone
   /\ \A i \in 2..Len(result.args.t) : result.args.t[i] # result.args.t[i - 1])
  => /\ Len(result.value) = Len(result.args.t)
     /\ \A i \in 2..Len(result.args.t) :
          /\ result.value[i] = Speed(result.args, i)
          /\ (/\ result.args.t[i] - result.args.t[i - 1] = 10
              /\ FSub(result.args.x[i], result.args.x[i - 1]) = FromInt(30)
              /\ FSub(result.args.y[i], result.args.y[i - 1]) = FromInt(40)
              /\ FSub(result.args.z[i], result.args.z[i - 1]) = Zero)
             => result.value[i] = FromInt(5)

\* the two samples of the example
C4_Witness ==
  /\ VelocityDone
  /\ result.args.t = <<0, 10>>
  /\ result.args.x = Floats(<<0, 30>>)
  /\ result.args.y = Floats(<<0, 40>>)
  /\ result.args.z = Floats(<<0, 0>>)
  /\ result.value = <<Zero, FromInt(5)>>

\* component c is the same in samples i-1 and i
Unchanged(c, i) == c[i] = c[i - 1]

\* C5 as stated: at equal consecutive timestamps element i of the speed
\* series is infinite when the position changed and NaN when it did not.
C5_AsStated ==
  VelocityDone
  => /\ Len(result.value) = Len(result.args.t)
     /\ \A i \in 2..Len(result.args.t) :
          result.args.t[i] = result.args.t[i - 1]
          => IF /\ Unchanged(result.args.x, i)
                /\ Unchanged(result.args.y, i)
                /\ Unchanged(result.args.z, i)
             THEN IsNaN(result.value[i])
             ELSE IsInf(result.value[i])

\* C5: when two consecutive timestamps are equal cal_ecef_velocity does not
\* raise: it returns the full series of N elements, whose element i is
\* +infinity when all three of X, Y and Z changed between the two samples
\* and NaN when at least one of them did not change (0/0 in that component),
\* whether or not the position changed; every other element is computed as
\* usual.
C5_InfOrNaN ==
  VelocityDone
  => /\ Len(result.value) = Len(result.args.t)
     /\ result.value[1] = Zero
     /\ \A i \in 2..Len(result.args.t) :
          IF result.args.t[i] # result.args.t[i - 1]
          THEN result.value[i] = Speed(result.args, i)
          ELSE IF \/ Unchanged(result.args.x, i)
                  \/ Unchanged(result.args.y, i)
                  \/ Unchanged(result.args.z, i)
          THEN IsNaN(result.value[i])
          ELSE result.value[i] = Inf(1)

\* equal timestamps, X changed and Z did not: NaN, and a later element that
\* is computed as usual
C5_Witness ==
  /\ VelocityDone
  /\ Len(result.args.t) = 3
  /\ result.args.t[1] = result.args.t[2]
  /\ result.args.t[2] # result.args.t[3]
  /\ ~Unchanged(result.args.x, 2)
  /\ Unchanged(result.args.z, 2)
  /\ IsNaN(result.value[2])
  /\ result.value[3] = FromInt(5)

\* C6: for a (time, speed) series with strictly increasing times and every
\* index i, the first and the last included, the query at time_request =
\* time[i] completes and reports exactly speed[i].
C6_ExactAtBreakpoints ==
  (result.call = "src" /\ StrictlyIncreasing(result.time))
  => \A i \in 1..Len(result.time) :
       result.time[i] = result.time_request
       => /\ result.raised = "none"
          /\ log = <<output_of(result.time_request, result.velocity[i])>>
          /\ console = log

\* a query at the middle breakpoint, whose neighbours hold NaN
C6_Witness ==
  /\ result.call = "src"
  /\ result.time = <<0, 10, 20>>
  /\ result.velocity = <<NaN, FromInt(5), NaN>>
  /\ result.time_request = 10
  /\ log = <<output_of(10, FromInt(5))>>

\* the runs of the script test_basic.py: one for every file and query time
ScriptRuns ==
  {[filename |-> f, time_request |-> t, outcome |-> test_basic(f, t)] :
     f \in FileNames, t \in Requests}

\* how the script ends for the file and the query time
Script(filename, t) ==
  (CHOOSE r \in ScriptRuns : r.filename = filename /\ r.time_request = t).outcome

\* C7: the two entry variants agree.  For every file and query time,
\* interpolate_new_velocity(file, t) ends as the script that loads the file,
\* runs lla_to_ecef and cal_ecef_velocity and calls
\* interpolate_src_velocity(time, V, t): with the same block appended to the
\* log and printed, or with the same exception and no block written.
C7_VariantsAgree ==
  result.call = "new"
  => /\ result.raised = Script(result.filename, result.time_request).raised
     /\ Len(log) = done
     /\ Len(console) = done
     /\ result.raised = "none"
        => /\ log[Len(log)] =
                Script(result.filename, result.time_request).output
           /\ console[Len(console)] =
                Script(result.filename, result.time_request).output

\* a completed query of the file variant on the file with a repeated
\* timestamp, after another completed query
C7_Witness ==
  /\ result.call = "new"
  /\ result.filename = "stalled"
  /\ result.time_request = 10
  /\ result.raised = "none"
  /\ done = 2

\* the call of lla_to_ecef has returned
EcefDone == result.call = "lla_to_ecef"

\* row i of the arguments is (lat, lon, alt)
IsRow(a, i, lat, lon, alt) ==
  /\ a.lat[i] = FromInt(lat)
  /\ a.lon[i] = FromInt(lon)
  /\ a.alt[i] = FromInt(alt)

\* the calls of lla_to_ecef with one row
SingleRows ==
  {[lat |-> FromInt(a), lon |-> FromInt(b), alt |-> FromInt(c),
    xyz |-> lla_to_ecef(Floats(<<a>>), Floats(<<b>>), Floats(<<c>>))] :
     a \in LatValues, b \in LonValues, c \in AltValues}

\* row i of the value is what lla_to_ecef gives for row i alone
Aligned(a, v, i) ==
  \E c \in SingleRows :
    /\ c.lat = a.lat[i] /\ c.lon = a.lon[i] /\ c.alt = a.alt[i]
    /\ v.X[i] = c.xyz.X[1] /\ v.Y[i] = c.xyz.Y[1] /\ v.Z[i] = c.xyz.Z[1]

SameLength(a, v) ==
  /\ Len(v.X) = Len(a.lat)
  /\ Len(v.Y) = Len(a.lat)
  /\ Len(v.Z) = Len(a.lat)

\* C8 as stated: (0, 0, 0) gives X = 6378137, Y = 0, Z = 0 and (90, 0, 0)
\* gives X = 0, Y = 0, Z = 6356752.31424518.
C8_AsStated ==
  EcefDone
  => /\ SameLength(result.args, result.value)
     /\ \A i \in 1..Len(result.args.lat) :
          /\ IsRow(result.args, i, 0, 0, 0)
             => /\ result.value.X[i] = FromInt(A)
                /\ result.value.Y[i] = Zero
                /\ result.value.Z[i] = Zero
          /\ IsRow(result.args, i, 90, 0, 0)
             => /\ result.value.X[i] = Zero
                /\ result.value.Y[i] = Zero
                /\ result.value.Z[i] = B

\* C8: (lat=0, lon=0, alt=0) gives exactly X = 6378137, Y = 0, Z = 0;
\* (lat=90, lon=0, alt=0) gives Y = 0 and Z = 6356752.31424518 exactly, and
\* an X that is close to 0 and not 0: X = 3.918620924814471e-10, below
\* 1e-9, because the cosine of the float64 nearest pi/2 is not 0.  The
\* output has the length of the input and row i of the output is the
\* conversion of row i of the input.
C8_ReferencePoints ==
  EcefDone
  => /\ SameLength(result.args, result.value)
     /\ \A i \in 1..Len(result.args.lat) :
          /\ Aligned(result.args, result.value, i)
          /\ IsRow(result.args, i, 0, 0, 0)
             => /\ result.value.X[i] = FromInt(A)
                /\ result.value.Y[i] = Zero
                /\ result.value.Z[i] = Zero
          /\ IsRow(result.args, i, 90, 0, 0)
             => /\ result.value.X[i] = Dec(1, <<3918, 6209, 2481, 4471>>, -25)
                /\ result.value.X[i] # Zero
                /\ FLt(result.value.X[i], Dec(1, <<1>>, -9))
                /\ result.value.Y[i] = Zero
                /\ result.value.Z[i] = B

\* the two reference points in one call
C8_Witness ==
  /\ EcefDone
  /\ result.args.lat = Floats(<<0, 90>>)
  /\ result.args.lon = Floats(<<0, 0>>)
  /\ result.args.alt = Floats(<<0, 0>>)
  /\ result.value.X[1] = FromInt(A)
  /\ result.value.Z[2] = B

\* how interpolate_new_velocity(filename, t) must end: the exception and the
\* stage that raises it, or no exception after the last stage
Ending(filename, t) ==
  IF filename \notin DOMAIN FileSystem
  THEN [raised |-> "FileNotFoundError", stage |-> "load"]
  ELSE IF ~({"latitude", "longitude", "altitude"} \subseteq DOMAIN FileSystem[filename])
  THEN [raised |-> "AttributeError", stage |-> "columns"]
  ELSE IF "time" \notin DOMAIN FileSystem[filename]
  THEN [raised |-> "AttributeError", stage |-> "velocity"]
  ELSE IF OutOfRange(FileSystem[filename].time, t)
  THEN [raised |-> "ValueError", stage |-> "output"]
  ELSE [raised |-> "none", stage |-> "print"]

\* C9: in interpolate_new_velocity a missing input file, an absent column
\* and a query time out of range each halt the run at the stage that fails
\* and reach the caller as they are: no later stage runs, nothing is retried,
\* no default value is substituted, and the log file is left unchanged.  An
\* Inf or NaN in the speed series does not halt the run: every other query
\* completes.
C9_FailuresHalt ==
  /\ [](result.call = "new"
        => /\ result.raised = Ending(result.filename, result.time_request).raised
           /\ result.stage = Ending(result.filename, result.time_request).stage)
  /\ [][ (result' # result /\ result'.call = "new" /\ result'.raised # "none")
         => /\ pc' = "idle"
            /\ frame' = NoFrame
            /\ result'.stage = pc
            /\ log' = log
            /\ console' = console
            /\ ncalls' = ncalls
            /\ done' = done ]_vars

\* a missing column halts the second query at the velocity stage; the log
\* keeps the block of the first, whose value is NaN
C9_Witness ==
  /\ result.call = "new"
  /\ result.raised = "AttributeError"
  /\ result.stage = "velocity"
  /\ Len(log) = 1
  /\ IsNaN(log[1][4].str)

\* the speed series of the frame is differenced in row order
RowOrderSpeeds ==
  /\ Len(frame.V) = Len(frame.df.time)
  /\ frame.V[1] = Zero
  /\ \A i \in 2..Len(frame.V) :
       frame.V[i] = Speed([t |-> frame.df.time, x |-> frame.xyz.X,
                           y |-> frame.xyz.Y, z |-> frame.xyz.Z], i)

\* C10 as stated: the speed series is differenced in row order and the
\* breakpoints of the interpolant are the pairs (time[i], speed[i]) in row
\* order.
C10_AsStated ==
  pc \in {"output", "write"}
  => /\ RowOrderSpeeds
     /\ frame.f.x = frame.df.time
     /\ frame.f.y = frame.V

\* f holds the pairs (time[i], V[i]) sorted by time, pairs with the same
\* time in row order
SortedByTime(f, time, V) ==
  \E p \in Permutations(1..Len(time)) :
    /\ \A k \in 1..Len(time) : f.x[k] = time[p[k]] /\ f.y[k] = V[p[k]]
    /\ \A k \in 1..Len(time) : \A l \in (k + 1)..Len(time) :
         \/ time[p[k]] < time[p[l]]
         \/ time[p[k]] = time[p[l]] /\ p[k] < p[l]

\* C10: the speed series is differenced in row order, whatever the order of
\* the times; the interpolant is not built in row order: interp1d sorts the
\* pairs (time[i], speed[i]) by time (rows with the same time keep their row
\* order), so the reported value is that of the time-sorted copy of the
\* pairs.
C10_SortedBreakpoints ==
  /\ pc \in {"output", "write"}
     => /\ RowOrderSpeeds
        /\ SortedByTime(frame.f, frame.df.time, frame.V)
  /\ pc = "write"
     => frame.output =
          src_output(frame.f.x, frame.f.y, frame.time_request).output

\* the file whose rows are not in time order, at the write stage
C10_Witness ==
  /\ pc = "write"
  /\ frame.filename = "shuffled"
  /\ frame.f.x # frame.df.time
  /\ frame.f.x = <<0, 10, 20>>

====
